---------------------------- MODULE Spec2Model ----------------------------
(***************************************************************************)
(* Model of exif-dashboard-pro: ExifAnalyzer (src/src/exif_analyzer.py)    *)
(* and DataProcessor (src/src/data_processor.py).                          *)
(*                                                                         *)
(* Python values are tagged records: None, int, str, tuple, dict, bool,    *)
(* float (an exact fraction num/den in lowest terms), datetime and NaN.    *)
(* A Python dict whose keys are strings (a photo record) is a TLA+         *)
(* function from the keys it holds to values; a dict read in iteration     *)
(* order (the EXIF mapping, the GPS mapping) is a sequence of <<key,       *)
(* value>> pairs with distinct keys.  An operation that raises returns     *)
(* Raised.                                                                 *)
(***************************************************************************)
EXTENDS Integers, Sequences, FiniteSets, TLC

VARIABLES
    disk,         \* the files under the folder "photos", in traversal order
    photos_data,  \* ExifAnalyzer.photos_data
    df,           \* DataProcessor.df
    call,         \* the last operation called, with its arguments
    ret           \* what that call returned, or Raised

vars == <<disk, photos_data, df, call, ret>>

---------------------------------------------------------------------------
(* Bounds of the model *)

MaxFiles == 3
MaxTags == 3
MaxNum == 7
MaxRecords == 3

---------------------------------------------------------------------------
(* Python values *)

None == [t |-> "None"]
Raised == [t |-> "raise"]
NaN == [t |-> "nan"]
PyInt(n) == [t |-> "int", v |-> n]
PyStr(s) == [t |-> "str", s |-> s]
PyBool(b) == [t |-> "bool", v |-> b]
PyTuple(seq) == [t |-> "tuple", v |-> seq]
PyDict(items) == [t |-> "dict", items |-> items]
PyList(seq) == [t |-> "list", v |-> seq]

RECURSIVE GCD(_, _)
GCD(a, b) == IF b = 0 THEN a ELSE GCD(b, a % b)

Abs(n) == IF n < 0 THEN -n ELSE n

\* the float num/den, den > 0, in lowest terms
Float(num, den) ==
    LET g == GCD(Abs(num), den)
    IN  [t |-> "float", num |-> num \div g, den |-> den \div g]

Neg(f) == [f EXCEPT !.num = -f.num]

\* a / b rounded to the nearest integer, ties to even (a >= 0, b > 0)
RoundHalfEven(a, b) ==
    LET q == a \div b
        r == a % b
    IN  IF 2 * r < b THEN q
        ELSE IF 2 * r > b THEN q + 1
        ELSE IF q % 2 = 0 THEN q ELSE q + 1

\* round(a / b) where the code has int(a / b)
TruncRounds(a, b) == RoundHalfEven(a, b)

\* int(a / b): a / b truncated towards zero (a >= 0, b > 0)
Trunc(a, b) == a \div b

Chr(s, i) == SubSeq(s, i, i)

DigitChars == <<"0", "1", "2", "3", "4", "5", "6", "7", "8", "9">>

\* the value of each digit
DigitOf == [c \in { DigitChars[i] : i \in 1..10 } |->
               (CHOOSE i \in 1..10 : DigitChars[i] = c) - 1]

IsDigit(c) == c \in DOMAIN DigitOf

DigitVal(c) == DigitOf[c]

RECURSIVE NatToStr(_)
NatToStr(n) ==
    IF n < 10 THEN DigitChars[n + 1]
    ELSE NatToStr(n \div 10) \o DigitChars[(n % 10) + 1]

IntToStr(n) == IF n < 0 THEN "-" \o NatToStr(-n) ELSE NatToStr(n)

AllDigits(s) == Len(s) > 0 /\ \A i \in 1..Len(s) : IsDigit(Chr(s, i))

RECURSIVE StrToNat(_)
StrToNat(s) ==
    IF Len(s) = 0 THEN 0
    ELSE 10 * StrToNat(SubSeq(s, 1, Len(s) - 1)) + DigitVal(Chr(s, Len(s)))

IsSpace(c) == c \in {" ", "\t", "\n"}

RECURSIVE LStrip(_)
LStrip(s) ==
    IF Len(s) > 0 /\ IsSpace(Chr(s, 1)) THEN LStrip(SubSeq(s, 2, Len(s))) ELSE s

RECURSIVE RStrip(_)
RStrip(s) ==
    IF Len(s) > 0 /\ IsSpace(Chr(s, Len(s)))
    THEN RStrip(SubSeq(s, 1, Len(s) - 1)) ELSE s

\* str.strip()
Strip(s) == RStrip(LStrip(s))

RECURSIVE JoinInts(_)
JoinInts(seq) ==
    IF Len(seq) = 0 THEN ""
    ELSE IF Len(seq) = 1 THEN IntToStr(seq[1])
    ELSE IntToStr(seq[1]) \o ", " \o JoinInts(Tail(seq))

\* str(value), for None, int, str and tuples of ints
StrOf(value) ==
    CASE value.t = "str" -> value.s
      [] value.t = "int" -> IntToStr(value.v)
      [] value.t = "None" -> "None"
      [] value.t = "tuple" ->
            IF Len(value.v) = 1 THEN "(" \o IntToStr(value.v[1]) \o ",)"
            ELSE "(" \o JoinInts(value.v) \o ")"

\* int(value): TypeError for a tuple, a dict or None, ValueError for a
\* string that is not a decimal number
IntOf(value) ==
    CASE value.t = "int" -> PyInt(value.v)
      [] value.t = "str" ->
            IF AllDigits(Strip(value.s)) THEN PyInt(StrToNat(Strip(value.s)))
            ELSE Raised
      [] OTHER -> Raised

\* float(value): as int(value), for whole numbers
FloatOf(value) ==
    CASE value.t = "int" -> Float(value.v, 1)
      [] value.t = "str" ->
            IF AllDigits(Strip(value.s)) THEN Float(StrToNat(Strip(value.s)), 1)
            ELSE Raised
      [] OTHER -> Raised

\* f"{num / den:.1f}" for num >= 0, den > 0
FormatOneDecimal(num, den) ==
    LET tenths == RoundHalfEven(10 * num, den)
    IN  NatToStr(tenths \div 10) \o "." \o DigitChars[(tenths % 10) + 1]

---------------------------------------------------------------------------
(* ExifAnalyzer: the tag conversions *)

\* PIL.ExifTags.TAGS, the entries the analyzer reads and two it ignores
TAGS ==
    (271 :> "Make") @@ (272 :> "Model") @@ (42036 :> "LensModel") @@
    (37386 :> "FocalLength") @@ (33437 :> "FNumber") @@
    (33434 :> "ExposureTime") @@ (34855 :> "ISOSpeedRatings") @@
    (306 :> "DateTime") @@ (36867 :> "DateTimeOriginal") @@
    (37385 :> "Flash") @@ (34853 :> "GPSInfo") @@
    (274 :> "Orientation") @@ (305 :> "Software")

\* PIL.ExifTags.GPSTAGS, the entries the analyzer reads and one it ignores
GPSTAGS ==
    (1 :> "GPSLatitudeRef") @@ (2 :> "GPSLatitude") @@
    (3 :> "GPSLongitudeRef") @@ (4 :> "GPSLongitude") @@ (5 :> "GPSAltitudeRef")

\* table.get(tag_id, tag_id): an id the table lacks stays the id, which is
\* no tag name
TagName(table, tag_id) ==
    IF tag_id \in DOMAIN table THEN table[tag_id] ELSE IntToStr(tag_id)

_parse_rational(value) ==
    IF value.t = "tuple" THEN
        IF Len(value.v) < 2 THEN None                       \* IndexError
        ELSE IF value.v[2] = 0 THEN None                    \* ZeroDivisionError
        ELSE Float(RoundHalfEven(10 * value.v[1], value.v[2]), 10)
    ELSE IF FloatOf(value) = Raised THEN None
    ELSE FloatOf(value)

_parse_shutter_speed(value) ==
    IF value.t = "tuple" THEN
        IF Len(value.v) # 2 THEN None                       \* ValueError
        ELSE LET numerator == value.v[1]
                 denominator == value.v[2]
             IN  IF numerator >= denominator THEN
                     IF denominator = 0 THEN None           \* ZeroDivisionError
                     ELSE PyStr(FormatOneDecimal(numerator, denominator) \o "s")
                 ELSE
                     IF numerator = 0 THEN None             \* ZeroDivisionError
                     ELSE PyStr("1/" \o IntToStr(Trunc(denominator, numerator)))
    ELSE PyStr(StrOf(value))

IsLeap(y) == (y % 4 = 0 /\ y % 100 # 0) \/ y % 400 = 0

DaysInMonth(y, m) ==
    IF m = 2 THEN (IF IsLeap(y) THEN 29 ELSE 28)
    ELSE IF m \in {4, 6, 9, 11} THEN 30 ELSE 31

\* the fields of a string of the shape dddd:dd:dd dd:dd:dd
DateFields(s) ==
    [Y |-> StrToNat(SubSeq(s, 1, 4)), M |-> StrToNat(SubSeq(s, 6, 7)),
     D |-> StrToNat(SubSeq(s, 9, 10)), h |-> StrToNat(SubSeq(s, 12, 13)),
     mi |-> StrToNat(SubSeq(s, 15, 16)), s |-> StrToNat(SubSeq(s, 18, 19))]

\* datetime.strptime(s, '%Y:%m:%d %H:%M:%S') on zero-padded input: the
\* datetime, or Raised (ValueError)
Strptime(s) ==
    IF /\ Len(s) = 19
       /\ \A i \in {5, 8, 14, 17} : Chr(s, i) = ":"
       /\ Chr(s, 11) = " "
       /\ \A i \in (1..19) \ {5, 8, 11, 14, 17} : IsDigit(Chr(s, i))
    THEN LET f == DateFields(s)
         IN  IF /\ f.Y >= 1
                /\ f.M \in 1..12
                /\ f.D \in 1..DaysInMonth(f.Y, f.M)
                /\ f.h \in 0..23
                /\ f.mi \in 0..59
                /\ f.s \in 0..61
             THEN [t |-> "datetime", Y |-> f.Y, M |-> f.M, D |-> f.D,
                   h |-> f.h, mi |-> f.mi, s |-> f.s]
             ELSE Raised
    ELSE Raised

_parse_datetime(value) ==
    IF Strptime(StrOf(value)) = Raised THEN None ELSE Strptime(StrOf(value))

\* d + (m / 60.0) + (s / 3600.0): ValueError unless value unpacks into
\* three, TypeError unless the three are numbers
_convert_to_degrees(value) ==
    IF value.t # "tuple" \/ Len(value.v) # 3 THEN Raised
    ELSE Float(3600 * value.v[1] + 60 * value.v[2] + value.v[3], 3600)

\* gps_data[tag_name] = value over gps_info.items(), as a function
RECURSIVE GpsByName(_)
GpsByName(items) ==
    IF Len(items) = 0 THEN <<>>
    ELSE LET last == items[Len(items)]
             rest == GpsByName(SubSeq(items, 1, Len(items) - 1))
         IN  (TagName(GPSTAGS, last[1]) :> last[2]) @@ rest

\* dict.get(key): None when the key is absent
Get(d, key) == IF key \in DOMAIN d THEN d[key] ELSE None

\* _parse_gps that returns whichever of the two coordinates it finds
_parse_gps_partial(gps_info) ==
    IF gps_info.t # "dict" THEN None
    ELSE LET gps_data == GpsByName(gps_info.items)
             lat == IF "GPSLatitude" \in DOMAIN gps_data
                    THEN _convert_to_degrees(gps_data["GPSLatitude"]) ELSE Raised
             lon == IF "GPSLongitude" \in DOMAIN gps_data
                    THEN _convert_to_degrees(gps_data["GPSLongitude"]) ELSE Raised
         IN  IF lat = Raised /\ lon = Raised THEN None
             ELSE IF lon = Raised THEN [latitude |-> lat]
             ELSE IF lat = Raised THEN [longitude |-> lon]
             ELSE [latitude |-> lat, longitude |-> lon]

_parse_gps(gps_info) ==
    IF gps_info.t # "dict" THEN None                        \* AttributeError
    ELSE LET gps_data == GpsByName(gps_info.items)
         IN  IF "GPSLatitude" \in DOMAIN gps_data /\ "GPSLongitude" \in DOMAIN gps_data
             THEN LET lat == _convert_to_degrees(gps_data["GPSLatitude"])
                      lon == _convert_to_degrees(gps_data["GPSLongitude"])
                  IN  IF lat = Raised \/ lon = Raised THEN None
                      ELSE [latitude |->
                                IF Get(gps_data, "GPSLatitudeRef") = PyStr("S")
                                THEN Neg(lat) ELSE lat,
                            longitude |->
                                IF Get(gps_data, "GPSLongitudeRef") = PyStr("W")
                                THEN Neg(lon) ELSE lon]
             ELSE None

---------------------------------------------------------------------------
(* ExifAnalyzer.extract_exif *)

\* d.setdefault(key, value) where the code has d[key] = value
PutKeepsFirst(d, key, value) == d @@ (key :> value)

\* d[key] = value
Put(d, key, value) == (key :> value) @@ d

\* image_path.name and str(image_path)
PathName(path) == path.stem \o path.suffix
PathStr(path) == path.dir \o "/" \o PathName(path)

\* value & 1: TypeError unless value is an int
LowBit(value) == IF value.t = "int" THEN PyInt(value.v % 2) ELSE Raised

\* one turn of the loop over exif_data.items(): the record after it, or
\* Raised when the branch raises
HandleTag(parsed_data, tag_id, value) ==
    LET tag_name == TagName(TAGS, tag_id)
    IN  CASE tag_name = "Make" ->
                Put(parsed_data, "camera_make", PyStr(Strip(StrOf(value))))
          [] tag_name = "Model" ->
                Put(parsed_data, "camera_model", PyStr(Strip(StrOf(value))))
          [] tag_name = "LensModel" ->
                Put(parsed_data, "lens", PyStr(Strip(StrOf(value))))
          [] tag_name = "FocalLength" ->
                Put(parsed_data, "focal_length", _parse_rational(value))
          [] tag_name = "FNumber" ->
                Put(parsed_data, "aperture", _parse_rational(value))
          [] tag_name = "ExposureTime" ->
                Put(parsed_data, "shutter_speed", _parse_shutter_speed(value))
          [] tag_name = "ISOSpeedRatings" ->
                IF IntOf(value) = Raised THEN Raised
                ELSE Put(parsed_data, "iso", IntOf(value))
          [] tag_name \in {"DateTime", "DateTimeOriginal"} ->
                Put(parsed_data, "datetime", _parse_datetime(value))
          [] tag_name = "Flash" ->
                IF LowBit(value) = Raised THEN Raised
                ELSE Put(parsed_data, "flash_used", PyBool(LowBit(value).v # 0))
          [] tag_name = "GPSInfo" ->
                LET gps_data == _parse_gps(value)
                IN  IF gps_data # None THEN gps_data @@ parsed_data
                    ELSE parsed_data
          [] OTHER -> parsed_data

\* the loop over exif_data.items(), from item i on
RECURSIVE WalkTags(_, _, _)
WalkTags(items, i, parsed_data) ==
    IF i > Len(items) THEN parsed_data
    ELSE LET next == HandleTag(parsed_data, items[i][1], items[i][2])
         IN  IF next = Raised THEN Raised
             ELSE WalkTags(items, i + 1, next)

\* an image file: its path, whether Image.open succeeds, what _getexif()
\* returns (None or the mapping), image.size and stat().st_size
extract_exif(image) ==
    IF ~image.openable THEN None                            \* except Exception
    ELSE IF image.exif = None \/ image.exif.items = <<>> THEN None  \* not exif_data
    ELSE LET parsed_data ==
                 [filename |-> PyStr(PathName(image.path)),
                  filepath |-> PyStr(PathStr(image.path)),
                  file_size |-> Float(image.st_size, 1024 * 1024)]
             walked == WalkTags(image.exif.items, 1, parsed_data)
         IN  IF walked = Raised THEN None                   \* except Exception
             ELSE [width |-> PyInt(image.size[1]),
                   height |-> PyInt(image.size[2]),
                   orientation |->
                       IF image.size[2] > image.size[1]
                       THEN PyStr("portrait") ELSE PyStr("landscape")]
                  @@ walked

---------------------------------------------------------------------------
(* ExifAnalyzer.scan_folder *)

UpperLetters == "ABCDEFGHIJKLMNOPQRSTUVWXYZ"
LowerLetters == "abcdefghijklmnopqrstuvwxyz"

\* the lower-case letter of each upper-case letter
LowerOf == [c \in { Chr(UpperLetters, i) : i \in 1..26 } |->
               Chr(LowerLetters, CHOOSE i \in 1..26 : Chr(UpperLetters, i) = c)]

LowerChar(c) == IF c \in DOMAIN LowerOf THEN LowerOf[c] ELSE c

\* str.lower()
RECURSIVE Lower(_)
Lower(s) == IF Len(s) = 0 THEN "" ELSE LowerChar(Chr(s, 1)) \o Lower(Tail(s))

SUPPORTED_FORMATS == {".jpg", ".jpeg", ".png", ".tiff", ".tif"}

\* the directories that exist
Dirs == {"photos", "photos/sub"}

Parent(dir) == IF dir = "photos/sub" THEN "photos" ELSE ""

\* folder.rglob('*') reaches the files of the folder and of the folders
\* below it, folder.glob('*') those of the folder alone
Reaches(folder, dir, recursive) ==
    dir = folder \/ (recursive /\ dir \in Dirs /\ Parent(dir) = folder)

\* [f for f in folder.rglob('*') if f.suffix.lower() in SUPPORTED_FORMATS]
RECURSIVE ImageFiles(_, _, _)
ImageFiles(files, folder, recursive) ==
    IF Len(files) = 0 THEN <<>>
    ELSE LET f == Head(files)
             rest == ImageFiles(Tail(files), folder, recursive)
         IN  IF /\ Reaches(folder, f.path.dir, recursive)
                /\ Lower(f.path.suffix) \in SUPPORTED_FORMATS
             THEN <<f>> \o rest ELSE rest

\* bool(x) of what extract_exif returns: None and an empty dict are false
Truthy(x) == x # None /\ DOMAIN x # {}

\* the loop, were it to stop at the first file that yields no record
RECURSIVE ScanLoopStops(_, _, _)
ScanLoopStops(image_files, i, data) ==
    IF i > Len(image_files) THEN data
    ELSE LET exif_data == extract_exif(image_files[i])
         IN  IF Truthy(exif_data)
             THEN ScanLoopStops(image_files, i + 1, Append(data, exif_data))
             ELSE data

\* for img_path in image_files: ..., from file i on
RECURSIVE ScanLoop(_, _, _)
ScanLoop(image_files, i, data) ==
    IF i > Len(image_files) THEN data
    ELSE LET exif_data == extract_exif(image_files[i])
         IN  ScanLoop(image_files, i + 1,
                      IF Truthy(exif_data) THEN Append(data, exif_data) ELSE data)

\* scan_folder, were it to keep the records of earlier scans
scan_folder_accumulates(data, files, folder_path, recursive) ==
    IF folder_path \notin Dirs
    THEN [photos_data |-> data, image_files |-> <<>>, ret |-> Raised]
    ELSE LET image_files == ImageFiles(files, folder_path, recursive)
             found == ScanLoop(image_files, 1, data)
         IN  [photos_data |-> found, image_files |-> image_files,
              ret |-> PyList(found)]

\* scan_folder on an analyzer whose photos_data is `data`: the new
\* photos_data, the candidates found and what the call returns
scan_folder(data, files, folder_path, recursive) ==
    IF folder_path \notin Dirs
    THEN [photos_data |-> data, image_files |-> <<>>, ret |-> Raised]
    ELSE LET image_files == ImageFiles(files, folder_path, recursive)
             found == ScanLoop(image_files, 1, <<>>)
         IN  [photos_data |-> found, image_files |-> image_files,
              ret |-> PyList(found)]

---------------------------------------------------------------------------
(* The inputs *)

Image(dir, stem, suffix, openable, exif, size, st_size) ==
    [path |-> [dir |-> dir, stem |-> stem, suffix |-> suffix],
     openable |-> openable, exif |-> exif, size |-> size, st_size |-> st_size]

GpsBoth ==
    PyDict(<<<<1, PyStr("N")>>, <<2, PyTuple(<<40, 30, 0>>)>>,
             <<3, PyStr("E")>>, <<4, PyTuple(<<2, 15, 36>>)>>>>)
GpsSouthWest ==
    PyDict(<<<<2, PyTuple(<<40, 30, 0>>)>>, <<1, PyStr("S")>>,
             <<4, PyTuple(<<2, 15, 36>>)>>, <<3, PyStr("W")>>, <<5, PyInt(0)>>>>)
GpsLatitudeOnly == PyDict(<<<<1, PyStr("N")>>, <<2, PyTuple(<<40, 30, 0>>)>>>>)
GpsLongitudeOnly == PyDict(<<<<3, PyStr("E")>>, <<4, PyTuple(<<2, 15, 36>>)>>>>)
GpsBadTriple ==
    PyDict(<<<<2, PyTuple(<<40, 30, 0>>)>>, <<4, PyTuple(<<2, 15>>)>>>>)

\* the (tag id, raw value) entries an EXIF mapping is drawn from: for each
\* tag the analyzer reads, values that convert and values that do not
TagValues ==
    { <<271, PyStr("Canon ")>>,
      <<272, PyStr(" EOS R5 ")>>,
      <<42036, PyStr("RF 50mm")>>,
      <<37386, PyTuple(<<50, 1>>)>>, <<37386, PyTuple(<<50, 0>>)>>,
      <<33437, PyTuple(<<28, 10>>)>>, <<33437, PyStr("wide")>>,
      <<33434, PyTuple(<<1, 500>>)>>, <<33434, PyTuple(<<0, 0>>)>>,
      <<34855, PyInt(100)>>, <<34855, PyTuple(<<100, 100>>)>>,
      <<34855, PyStr("auto")>>,
      <<306, PyStr("2023:06:01 06:00:00")>>, <<306, PyStr("2023-06-01 06:00:00")>>,
      <<36867, PyStr("2023:05:28 23:59:59")>>,
      <<36867, PyStr("0000:00:00 00:00:00")>>,
      <<37385, PyInt(16)>>, <<37385, PyInt(9)>>, <<37385, PyStr("on")>>,
      <<34853, GpsBoth>>, <<34853, GpsSouthWest>>, <<34853, GpsLatitudeOnly>>,
      <<34853, GpsLongitudeOnly>>, <<34853, GpsBadTriple>>, <<34853, PyInt(1234)>>,
      <<274, PyInt(1)>>,
      <<59999, PyInt(0)>> }

\* the mappings of at most n tags: sequences of entries of TagValues, no
\* tag id twice
RECURSIVE ExifSeqs(_)
ExifSeqs(n) ==
    IF n = 0 THEN {<<>>}
    ELSE LET shorter == ExifSeqs(n - 1)
         IN  shorter \cup
             { Append(qx[1], qx[2]) :
                 qx \in { p \in shorter \X TagValues :
                            /\ Len(p[1]) = n - 1
                            /\ \A i \in 1..Len(p[1]) : p[1][i][1] # p[2][1] } }

\* what _getexif() can return: None, or a mapping of at most MaxTags tags
ExifMappings == {None} \cup { PyDict(items) : items \in ExifSeqs(MaxTags) }

\* the files extract_exif is applied to
Images ==
    { Image("photos", "a", ".jpg", TRUE, exif, <<4000, 3000>>, 3145728) :
        exif \in ExifMappings }
    \cup { Image("photos", "tall", ".jpg", TRUE, PyDict(<<<<271, PyStr("Canon")>>>>),
                 <<3000, 4000>>, 1048576),
           Image("photos", "broken", ".jpg", FALSE, None, <<0, 0>>, 10) }

\* the files a folder is filled from: two that yield a record, one that
\* does not open, one without metadata, one whose ISOSpeedRatings does not
\* convert, and one that is no image
DiskFiles ==
    { Image("photos", "a", ".JPG", TRUE,
            PyDict(<<<<271, PyStr("Canon ")>>, <<34855, PyInt(100)>>>>),
            <<4000, 3000>>, 3145728),
      Image("photos/sub", "e", ".jpeg", TRUE, PyDict(<<<<34853, GpsBoth>>>>),
            <<3000, 4000>>, 1048576),
      Image("photos", "d", ".tiff", FALSE, None, <<0, 0>>, 10),
      Image("photos/sub", "c", ".png", TRUE, None, <<800, 600>>, 4096),
      Image("photos", "f", ".tif", TRUE,
            PyDict(<<<<272, PyStr("EOS R5")>>, <<34855, PyTuple(<<100, 100>>)>>>>),
            <<4000, 3000>>, 1048576),
      Image("photos", "notes", ".txt", TRUE, PyDict(<<<<271, PyStr("Canon")>>>>),
            <<10, 10>>, 100) }

PathOf(image) == image.path

---------------------------------------------------------------------------
(* The analyzer over a folder whose files come and go *)

Init ==
    /\ disk = <<>>
    /\ photos_data = <<>>
    /\ df = None
    /\ call = [op |-> "__init__"]
    /\ ret = None

\* a file appears in the folder's listing
CreateFile(f) ==
    /\ Len(disk) < MaxFiles
    /\ \A i \in 1..Len(disk) : PathOf(disk[i]) # PathOf(f)
    /\ disk' = Append(disk, f)
    /\ UNCHANGED <<photos_data, df, call, ret>>

\* a file disappears from it
DeleteFile(i) ==
    /\ i \in 1..Len(disk)
    /\ disk' = SubSeq(disk, 1, i - 1) \o SubSeq(disk, i + 1, Len(disk))
    /\ UNCHANGED <<photos_data, df, call, ret>>

ScanFolder(folder_path, recursive) ==
    LET out == scan_folder(photos_data, disk, folder_path, recursive)
    IN  /\ photos_data' = out.photos_data
        /\ call' = [op |-> "scan_folder", folder_path |-> folder_path,
                    recursive |-> recursive]
        /\ ret' = out.ret
        /\ UNCHANGED <<disk, df>>

Next ==
    \/ \E f \in DiskFiles : CreateFile(f)
    \/ \E i \in 1..MaxFiles + 1 : DeleteFile(i)
    \/ \E folder_path \in Dirs \cup {"missing"}, recursive \in BOOLEAN :
          ScanFolder(folder_path, recursive)

Spec == Init /\ [][Next]_vars

---------------------------------------------------------------------------
(* extract_exif applied to one file *)

InitExtract ==
    /\ disk = <<>>
    /\ photos_data = <<>>
    /\ df = None
    /\ call \in { [op |-> "extract_exif", image |-> image, done |-> FALSE] :
                    image \in Images }
    /\ ret = None

ExtractExif ==
    /\ call.op = "extract_exif" /\ ~call.done
    /\ call' = [call EXCEPT !.done = TRUE]
    /\ ret' = extract_exif(call.image)
    /\ UNCHANGED <<disk, photos_data, df>>

NextExtract == ExtractExif

SpecExtract == InitExtract /\ [][NextExtract]_vars

---------------------------------------------------------------------------
(* _parse_shutter_speed applied to one (numerator, denominator) pair *)

InitShutter ==
    /\ disk = <<>>
    /\ photos_data = <<>>
    /\ df = None
    /\ call \in { [op |-> "_parse_shutter_speed", value |-> PyTuple(<<n, d>>),
                   done |-> FALSE] :
                    n \in 0..MaxNum, d \in (0..MaxNum) \cup {500} }
    /\ ret = None

ParseShutterSpeed ==
    /\ call.op = "_parse_shutter_speed" /\ ~call.done
    /\ call' = [call EXCEPT !.done = TRUE]
    /\ ret' = _parse_shutter_speed(call.value)
    /\ UNCHANGED <<disk, photos_data, df>>

NextShutter == ParseShutterSpeed

SpecShutter == InitShutter /\ [][NextShutter]_vars

---------------------------------------------------------------------------
(* DataProcessor: the table *)

\* pd.isna(x)
IsNA(x) == x = None \/ x = NaN

\* the keys of the records, which become the columns
ColumnsOf(records) == UNION { DOMAIN records[i] : i \in 1..Len(records) }

\* pd.DataFrame(photos_data): one row per record, NaN where a record lacks
\* a column; no columns when there are no records
DataFrame(records) ==
    [t |-> "frame", columns |-> ColumnsOf(records),
     rows |-> [i \in 1..Len(records) |->
                 [c \in ColumnsOf(records) |->
                     IF c \in DOMAIN records[i] THEN records[i][c] ELSE NaN]]]

\* date.toordinal() and the English name of date.weekday()
DaysBeforeYear(y) ==
    (y - 1) * 365 + ((y - 1) \div 4) - ((y - 1) \div 100) + ((y - 1) \div 400)

RECURSIVE DaysBeforeMonth(_, _)
DaysBeforeMonth(y, m) ==
    IF m = 1 THEN 0 ELSE DaysBeforeMonth(y, m - 1) + DaysInMonth(y, m - 1)

ToOrdinal(y, m, d) == DaysBeforeYear(y) + DaysBeforeMonth(y, m) + d

DayNames ==
    <<"Monday", "Tuesday", "Wednesday", "Thursday", "Friday", "Saturday", "Sunday">>

DayName(date) == DayNames[((ToOrdinal(date.Y, date.M, date.D) + 6) % 7) + 1]

\* a comparison of the hour that moves the start of 'Early Morning'
_categorize_time_of_day_late(hour) ==
    IF IsNA(hour) THEN PyStr("Unknown")
    ELSE IF 6 <= hour.v /\ hour.v < 8 THEN PyStr("Early Morning")
    ELSE IF 8 <= hour.v /\ hour.v < 12 THEN PyStr("Morning")
    ELSE IF 12 <= hour.v /\ hour.v < 17 THEN PyStr("Afternoon")
    ELSE IF 17 <= hour.v /\ hour.v < 20 THEN PyStr("Golden Hour")
    ELSE IF 20 <= hour.v /\ hour.v < 23 THEN PyStr("Evening")
    ELSE PyStr("Night")

_categorize_time_of_day(hour) ==
    IF IsNA(hour) THEN PyStr("Unknown")
    ELSE IF 5 <= hour.v /\ hour.v < 8 THEN PyStr("Early Morning")
    ELSE IF 8 <= hour.v /\ hour.v < 12 THEN PyStr("Morning")
    ELSE IF 12 <= hour.v /\ hour.v < 17 THEN PyStr("Afternoon")
    ELSE IF 17 <= hour.v /\ hour.v < 20 THEN PyStr("Golden Hour")
    ELSE IF 20 <= hour.v /\ hour.v < 23 THEN PyStr("Evening")
    ELSE PyStr("Night")

\* the columns process_data adds to a row
Derived(row) ==
    LET date == IF IsNA(row["datetime"]) THEN NaN ELSE row["datetime"]
        hour == IF date = NaN THEN NaN ELSE PyInt(date.h)
    IN  [date |-> date,
         year |-> IF date = NaN THEN NaN ELSE PyInt(date.Y),
         month |-> IF date = NaN THEN NaN ELSE PyInt(date.M),
         day_of_week |-> IF date = NaN THEN NaN ELSE PyStr(DayName(date)),
         hour |-> hour,
         time_of_day |-> _categorize_time_of_day(hour)]

process_data(frame) ==
    IF Len(frame.rows) = 0 \/ frame.columns = {} THEN frame     \* self.df.empty
    ELSE IF "datetime" \in frame.columns
    THEN [t |-> "frame",
          columns |-> frame.columns \cup
                      {"date", "year", "month", "day_of_week", "hour", "time_of_day"},
          rows |-> [i \in 1..Len(frame.rows) |->
                      Derived(frame.rows[i]) @@ frame.rows[i]]]
    ELSE frame

---------------------------------------------------------------------------
(* DataProcessor: the reports *)

\* pd.DataFrame() and {}
EmptyFrame == [t |-> "frame", rows |-> <<>>]
EmptyDict == [t |-> "dict", d |-> <<>>]
Frame(rows) == [t |-> "frame", rows |-> rows]

\* the values of a column that are not NA, in row order
RECURSIVE Present(_, _, _)
Present(rows, col, i) ==
    IF i > Len(rows) THEN <<>>
    ELSE IF IsNA(rows[i][col]) THEN Present(rows, col, i + 1)
    ELSE <<rows[i][col]>> \o Present(rows, col, i + 1)

Occurrences(values, x) == Cardinality({ i \in 1..Len(values) : values[i] = x })

\* each value once, in order of first appearance, with its count
RECURSIVE Tally(_, _)
Tally(values, i) ==
    IF i > Len(values) THEN <<>>
    ELSE IF \E j \in 1..(i - 1) : values[j] = values[i] THEN Tally(values, i + 1)
    ELSE <<[value |-> values[i], count |-> Occurrences(values, values[i])]>>
         \o Tally(values, i + 1)

\* an entry put into entries ordered by falling count, after its equals
InsertByCount(entries, e) ==
    LET before == { i \in 1..Len(entries) : entries[i].count >= e.count }
        k == Cardinality(before)
    IN  SubSeq(entries, 1, k) \o <<e>> \o SubSeq(entries, k + 1, Len(entries))

RECURSIVE SortByCount(_)
SortByCount(entries) ==
    IF Len(entries) = 0 THEN <<>>
    ELSE InsertByCount(SortByCount(SubSeq(entries, 1, Len(entries) - 1)),
                       entries[Len(entries)])

\* Series.value_counts(): the count of each value that is not NA, largest
\* first, equal counts in order of first appearance
value_counts(rows, col) == SortByCount(Tally(Present(rows, col, 1), 1))

\* x < y for two ints or two floats
LessThan(x, y) ==
    IF x.t = "int" THEN x.v < y.v ELSE x.num * y.den < y.num * x.den

InsertByValue(entries, e) ==
    LET before == { i \in 1..Len(entries) : LessThan(entries[i].value, e.value) }
        k == Cardinality(before)
    IN  SubSeq(entries, 1, k) \o <<e>> \o SubSeq(entries, k + 1, Len(entries))

\* Series.sort_index(): by rising value
RECURSIVE sort_index(_)
sort_index(entries) ==
    IF Len(entries) = 0 THEN <<>>
    ELSE InsertByValue(sort_index(SubSeq(entries, 1, Len(entries) - 1)),
                       entries[Len(entries)])

\* counts.get(key, 0)
CountOf(entries, key) ==
    IF \E i \in 1..Len(entries) : entries[i].value = key
    THEN entries[CHOOSE i \in 1..Len(entries) : entries[i].value = key].count
    ELSE 0

\* Series.reindex(order), were it to keep only the labels that have a count
reindex_no_fill(entries, order) ==
    LET all == [i \in 1..Len(order) |->
                  [value |-> PyStr(order[i]),
                   count |-> CountOf(entries, PyStr(order[i]))]]
    IN  SelectSeq(all, LAMBDA e : e.count > 0)

\* Series.reindex(order, fill_value=0)
reindex(entries, order) ==
    [i \in 1..Len(order) |->
        [value |-> PyStr(order[i]), count |-> CountOf(entries, PyStr(order[i]))]]

\* the fraction where the code has the percentage: no "* 100"
PercentageIsFraction(count, total) == Float(RoundHalfEven(count * 10, total), 10)

\* (count / len(self.df) * 100).round(1)
Percentage(count, total) == Float(RoundHalfEven(count * 1000, total), 10)


get_camera_usage(frame) ==
    IF "camera_model" \notin frame.columns THEN EmptyFrame
    ELSE LET camera_counts == value_counts(frame.rows, "camera_model")
         IN  Frame([i \in 1..Len(camera_counts) |->
                      [Camera |-> camera_counts[i].value,
                       Photos |-> camera_counts[i].count,
                       Percentage |-> Percentage(camera_counts[i].count,
                                                 Len(frame.rows))]])

get_lens_usage(frame) ==
    IF "lens" \notin frame.columns THEN EmptyFrame
    ELSE LET lens_counts == value_counts(frame.rows, "lens")
         IN  Frame([i \in 1..Len(lens_counts) |->
                      [Lens |-> lens_counts[i].value,
                       Photos |-> lens_counts[i].count,
                       Percentage |-> Percentage(lens_counts[i].count,
                                                 Len(frame.rows))]])

\* get_iso_distribution, get_aperture_distribution and
\* get_focal_length_distribution, which differ in the column they read
Distribution(frame, col) ==
    IF col \notin frame.columns THEN EmptyFrame
    ELSE LET counts == sort_index(value_counts(frame.rows, col))
         IN  Frame([i \in 1..Len(counts) |->
                      [Value |-> counts[i].value, Count |-> counts[i].count]])

get_iso_distribution(frame) == Distribution(frame, "iso")
get_aperture_distribution(frame) == Distribution(frame, "aperture")
get_focal_length_distribution(frame) == Distribution(frame, "focal_length")

\* the month (freq 'M') or the year (freq 'Y') of a date, counted in
\* periods since year 0
Period(date, freq) == IF freq = "M" THEN date.Y * 12 + (date.M - 1) ELSE date.Y

\* groupby(pd.Grouper(key='date', freq=freq)).size() for freq 'M' and 'Y':
\* one row per period from the earliest date's to the latest's, with the
\* count of the dates in it.  With a date column that holds no date the
\* time bucketing has no range to bucket: depending on the pandas release it
\* yields no rows or raises, and both are outcomes here.
TimelineOutcomes(frame, freq) ==
    IF "date" \notin frame.columns THEN {EmptyFrame}
    ELSE LET dates == Present(frame.rows, "date", 1)
             periods == { Period(dates[i], freq) : i \in 1..Len(dates) }
         IN  IF Len(dates) = 0 THEN {EmptyFrame, Raised}
             ELSE LET first == CHOOSE q \in periods : \A r \in periods : q <= r
                      last == CHOOSE q \in periods : \A r \in periods : r <= q
                  IN  {Frame([i \in 1..(last - first + 1) |->
                               [Date |-> first + i - 1,
                                Photos |-> Cardinality(
                                    { j \in 1..Len(dates) :
                                        Period(dates[j], freq) = first + i - 1 })]])}

time_order ==
    <<"Early Morning", "Morning", "Afternoon", "Golden Hour", "Evening", "Night">>

get_time_of_day_distribution(frame) ==
    IF "time_of_day" \notin frame.columns THEN EmptyFrame
    ELSE LET tod_counts == reindex(value_counts(frame.rows, "time_of_day"), time_order)
         IN  Frame([i \in 1..Len(tod_counts) |->
                      [TimeOfDay |-> tod_counts[i].value.s,
                       Photos |-> tod_counts[i].count]])

day_order == DayNames

get_day_of_week_distribution(frame) ==
    IF "day_of_week" \notin frame.columns THEN EmptyFrame
    ELSE LET dow_counts == reindex(value_counts(frame.rows, "day_of_week"), day_order)
         IN  Frame([i \in 1..Len(dow_counts) |->
                      [Day |-> dow_counts[i].value.s,
                       Photos |-> dow_counts[i].count]])

get_orientation_stats(frame) ==
    IF "orientation" \notin frame.columns THEN EmptyDict
    ELSE LET orientation_counts == value_counts(frame.rows, "orientation")
         IN  [t |-> "dict",
              d |-> [portrait |-> CountOf(orientation_counts, PyStr("portrait")),
                     landscape |-> CountOf(orientation_counts, PyStr("landscape"))]]

get_flash_usage_stats(frame) ==
    IF "flash_used" \notin frame.columns THEN EmptyDict
    ELSE LET flash_counts == value_counts(frame.rows, "flash_used")
         IN  [t |-> "dict",
              d |-> [used |-> CountOf(flash_counts, PyBool(TRUE)),
                     not_used |-> CountOf(flash_counts, PyBool(FALSE))]]

\* the rows of the projection that hold no NA
RECURSIVE DropNA(_, _, _)
DropNA(rows, cols, i) ==
    IF i > Len(rows) THEN <<>>
    ELSE IF \E c \in cols : IsNA(rows[i][c]) THEN DropNA(rows, cols, i + 1)
    ELSE <<[c \in cols |-> rows[i][c]]>> \o DropNA(rows, cols, i + 1)

get_gps_photos(frame) ==
    IF "latitude" \notin frame.columns \/ "longitude" \notin frame.columns
    THEN EmptyFrame
    ELSE IF ~({"filename", "latitude", "longitude", "date"} \subseteq frame.columns)
    THEN Raised                                             \* KeyError
    ELSE Frame(DropNA(frame.rows, {"filename", "latitude", "longitude", "date"}, 1))

---------------------------------------------------------------------------
(* The processor over the records of a scan *)

Exif1(a) == PyDict(<<a>>)
Exif2(a, b) == PyDict(<<a, b>>)
Exif3(a, b, c) == PyDict(<<a, b, c>>)
Landscape(stem, exif) == Image("photos", stem, ".jpg", TRUE, exif, <<4000, 3000>>, 3145728)
Portrait(stem, exif) == Image("photos", stem, ".jpg", TRUE, exif, <<3000, 4000>>, 2097152)

\* files whose records differ in the fields the reports read
ReportImages ==
    { Landscape("i1", PyDict(<<<<272, PyStr("EOS R5")>>,
                               <<306, PyStr("2023:06:01 06:00:00")>>,
                               <<34853, GpsBoth>>, <<34855, PyInt(100)>>,
                               <<33437, PyTuple(<<28, 10>>)>>, <<37385, PyInt(9)>>,
                               <<42036, PyStr("RF 50mm")>>>>)),
      Landscape("i2", Exif3(<<272, PyStr("EOS R5")>>, <<34853, GpsBoth>>,
                            <<34855, PyInt(400)>>)),
      Landscape("i3", Exif3(<<272, PyStr("EOS R5")>>,
                            <<306, PyStr("2023-06-01 06:00:00")>>,
                            <<33437, PyStr("wide")>>)),
      Portrait("i4", Exif2(<<272, PyStr("D850")>>,
                           <<36867, PyStr("2023:05:28 23:59:59")>>)),
      Portrait("i5", Exif2(<<272, PyStr("D850")>>, <<37385, PyInt(16)>>)),
      Landscape("i6", Exif3(<<272, PyStr("X100V")>>,
                            <<306, PyStr("2023:08:15 18:30:00")>>,
                            <<33437, PyTuple(<<28, 10>>)>>)),
      Landscape("i7", Exif3(<<271, PyStr("Canon")>>,
                            <<36867, PyStr("2023:05:28 23:59:59")>>,
                            <<34853, GpsSouthWest>>)),
      Portrait("i8", Exif1(<<271, PyStr("Canon")>>)),
      Landscape("i9", Exif2(<<34853, GpsBoth>>,
                            <<306, PyStr("0000:00:00 00:00:00")>>)),
      Landscape("i10", Exif3(<<272, PyStr("X100V")>>, <<34855, PyInt(100)>>,
                             <<37386, PyTuple(<<50, 1>>)>>)) }

\* two decimal digits
Pad2(n) == IF n < 10 THEN "0" \o NatToStr(n) ELSE NatToStr(n)

\* files taken on each day of one week at each hour of the day
HourImages ==
    { Landscape("h", Exif1(<<36867,
          PyStr("2023:" \o Pad2(md[1]) \o ":" \o Pad2(md[2]) \o " " \o Pad2(h)
                \o ":30:00")>>)) :
        md \in {<<5, 28>>, <<5, 29>>, <<5, 30>>, <<5, 31>>, <<6, 1>>, <<6, 2>>,
                <<6, 3>>},
        h \in 0..23 }

RECURSIVE SeqsUpTo(_, _)
SeqsUpTo(S, n) ==
    IF n = 0 THEN {<<>>}
    ELSE LET shorter == SeqsUpTo(S, n - 1)
         IN  shorter \cup
             { Append(qx[1], qx[2]) :
                 qx \in { p \in shorter \X S : Len(p[1]) = n - 1 } }

\* what scan_folder can hand to the processor: the records of at most
\* MaxRecords of the report files, or of one of the hour files
RecordLists ==
    SeqsUpTo({ extract_exif(image) : image \in ReportImages }, MaxRecords)
    \cup { <<extract_exif(image)>> : image \in HourImages }

InitAggregate ==
    /\ disk = <<>>
    /\ photos_data \in RecordLists
    /\ df = None
    /\ call = [op |-> "scan_folder"]
    /\ ret = PyList(photos_data)

\* DataProcessor(photos_data)
Construct ==
    /\ df = None
    /\ df' = process_data(DataFrame(photos_data))
    /\ call' = [op |-> "DataProcessor"]
    /\ ret' = None
    /\ UNCHANGED <<disk, photos_data>>

\* a report method is called and returns (or raises)
Report(name, result) ==
    /\ df # None
    /\ call' = [op |-> name]
    /\ ret' = result
    /\ UNCHANGED <<disk, photos_data, df>>

GetCameraUsage == Report("get_camera_usage", get_camera_usage(df))
GetLensUsage == Report("get_lens_usage", get_lens_usage(df))
GetIsoDistribution == Report("get_iso_distribution", get_iso_distribution(df))
GetApertureDistribution ==
    Report("get_aperture_distribution", get_aperture_distribution(df))
GetFocalLengthDistribution ==
    Report("get_focal_length_distribution", get_focal_length_distribution(df))
GetShootingTimeline(freq) ==
    /\ df # None
    /\ \E result \in TimelineOutcomes(df, freq) :
          /\ call' = [op |-> "get_shooting_timeline", freq |-> freq]
          /\ ret' = result
    /\ UNCHANGED <<disk, photos_data, df>>
GetTimeOfDayDistribution ==
    Report("get_time_of_day_distribution", get_time_of_day_distribution(df))
GetDayOfWeekDistribution ==
    Report("get_day_of_week_distribution", get_day_of_week_distribution(df))
GetOrientationStats == Report("get_orientation_stats", get_orientation_stats(df))
GetFlashUsageStats == Report("get_flash_usage_stats", get_flash_usage_stats(df))
GetGpsPhotos == Report("get_gps_photos", get_gps_photos(df))

NextAggregate ==
    \/ Construct
    \/ GetCameraUsage
    \/ GetLensUsage
    \/ GetIsoDistribution
    \/ GetApertureDistribution
    \/ GetFocalLengthDistribution
    \/ \E freq \in {"M", "Y"} : GetShootingTimeline(freq)
    \/ GetTimeOfDayDistribution
    \/ GetDayOfWeekDistribution
    \/ GetOrientationStats
    \/ GetFlashUsageStats
    \/ GetGpsPhotos

SpecAggregate == InitAggregate /\ [][NextAggregate]_vars

---------------------------------------------------------------------------
(* Properties of scan_folder, checked under Spec *)

\* a step of ScanFolder: the only steps that leave the folder as it is
ScanStep == disk' = disk /\ call'.op = "scan_folder"

\* the candidates of the scan that call' describes
Candidates == ImageFiles(disk, call'.folder_path, call'.recursive)

\* the k-th smallest member of a set of positions
KthOf(positions, k) ==
    CHOOSE i \in positions : Cardinality({ j \in positions : j <= i }) = k

\* seq is the records among `results` (what extract_exif returned for each
\* candidate, in traversal order), in that order
IsRecordsOf(seq, results) ==
    LET kept == { i \in 1..Len(results) : results[i] # None }
    IN  /\ Len(seq) = Cardinality(kept)
        /\ \A k \in 1..Len(seq) : seq[k] = results[KthOf(kept, k)]

\* what extract_exif returns for each of the files
Extracted(image_files) ==
    [i \in 1..Len(image_files) |-> extract_exif(image_files[i])]

\* C1: a scan of an existing folder never aborts because of one file: it
\* returns exactly the records of the candidates for which extract_exif
\* returned a record, in traversal order, whichever candidates fail to open
\* or have no metadata; extract_exif itself never raises.
C1_ScanSkipsBadFiles ==
    [][ScanStep /\ call'.folder_path \in Dirs =>
          LET results == Extracted(Candidates)
          IN  /\ ret' # Raised
              /\ \A i \in 1..Len(results) : results[i] # Raised
              /\ IsRecordsOf(ret'.v, results)]_vars

\* a scan has just returned a record found after a candidate that yielded none
C1_Witness ==
    /\ call.op = "scan_folder" /\ call.folder_path \in Dirs
    /\ LET results ==
               Extracted(ImageFiles(disk, call.folder_path, call.recursive))
       IN  /\ Len(results) >= 2
           /\ results[1] = None
           /\ results[2] # None
           /\ ret = PyList(<<results[2]>>)

\* C10: a scan that finds its folder replaces photos_data by what it found
\* (nothing of an earlier scan remains); a scan whose folder does not exist
\* raises and leaves photos_data as it was.
C10_ScanReplacesOrLeaves ==
    [][ScanStep =>
          IF call'.folder_path \in Dirs
          THEN /\ ret' = PyList(photos_data')
               /\ IsRecordsOf(photos_data', Extracted(Candidates))
          ELSE /\ ret' = Raised
               /\ photos_data' = photos_data]_vars

\* a failed scan has left the records of an earlier scan in place
C10_Witness ==
    /\ call.op = "scan_folder" /\ call.folder_path \notin Dirs
    /\ ret = Raised
    /\ Len(photos_data) >= 1

---------------------------------------------------------------------------
(* Properties of extract_exif, checked under SpecExtract *)

HasTag(image, tag_id) ==
    /\ image.exif # None
    /\ \E i \in 1..Len(image.exif.items) : image.exif.items[i][1] = tag_id

\* the position and the raw value of a tag the mapping holds
TagAt(image, tag_id) ==
    CHOOSE i \in 1..Len(image.exif.items) : image.exif.items[i][1] = tag_id
RawValue(image, tag_id) == image.exif.items[TagAt(image, tag_id)][2]

\* C2: for a file with non-empty metadata, a tag whose conversion fails
\* costs only that tag's field: a record is still returned, with filename,
\* filepath, file_size, width, height and orientation.
C2_RecordSurvivesBadTag ==
    call.done /\ call.image.openable /\ call.image.exif # None
              /\ call.image.exif.items # <<>> =>
        /\ ret # None
        /\ {"filename", "filepath", "file_size", "width", "height",
            "orientation"} \subseteq DOMAIN ret

\* the (degrees, minutes, seconds) triples of a GPS mapping that holds both
\* GPSLatitude (2) and GPSLongitude (4) as triples
HasBothTriples(gps_info) ==
    /\ gps_info.t = "dict"
    /\ \A id \in {2, 4} :
          \E i \in 1..Len(gps_info.items) :
              /\ gps_info.items[i][1] = id
              /\ gps_info.items[i][2].t = "tuple"
              /\ Len(gps_info.items[i][2].v) = 3

\* C3: a record has latitude and longitude both or neither, and has them
\* only when GPSInfo holds both GPSLatitude and GPSLongitude and both
\* convert.
C3_GpsBothOrNeither ==
    call.done /\ ret # None =>
        /\ "latitude" \in DOMAIN ret <=> "longitude" \in DOMAIN ret
        /\ "latitude" \in DOMAIN ret <=>
              /\ HasTag(call.image, 34853)
              /\ HasBothTriples(RawValue(call.image, 34853))

\* a record came back without coordinates from a GPSInfo that lacks one of
\* the two
C3_Witness ==
    /\ call.done /\ ret # None
    /\ HasTag(call.image, 34853)
    /\ RawValue(call.image, 34853) = GpsLatitudeOnly
    /\ "latitude" \notin DOMAIN ret /\ "longitude" \notin DOMAIN ret

\* what the two date tags' raw values of TagValues convert to
DateOf(value) ==
    CASE value = PyStr("2023:06:01 06:00:00") ->
            [t |-> "datetime", Y |-> 2023, M |-> 6, D |-> 1,
             h |-> 6, mi |-> 0, s |-> 0]
      [] value = PyStr("2023:05:28 23:59:59") ->
            [t |-> "datetime", Y |-> 2023, M |-> 5, D |-> 28,
             h |-> 23, mi |-> 59, s |-> 59]
      [] OTHER -> None

\* the date tag (DateTime 306, DateTimeOriginal 36867) met last
LastDateTag(image) ==
    IF TagAt(image, 306) > TagAt(image, 36867) THEN 306 ELSE 36867

\* C9: when the mapping holds both DateTime and DateTimeOriginal, the
\* record's datetime is the conversion of whichever is met last in the
\* iteration, also when that conversion is None and the earlier one was a
\* timestamp.
C9_LastDateTagWins ==
    call.done /\ ret # None /\ HasTag(call.image, 306)
              /\ HasTag(call.image, 36867) =>
        /\ "datetime" \in DOMAIN ret
        /\ ret["datetime"] = DateOf(RawValue(call.image, LastDateTag(call.image)))

\* a timestamp parsed from the first date tag was overwritten with None by
\* the second
C9_Witness ==
    /\ call.done /\ ret # None
    /\ HasTag(call.image, 306) /\ HasTag(call.image, 36867)
    /\ DateOf(RawValue(call.image, 306)) # None
    /\ TagAt(call.image, 306) < TagAt(call.image, 36867)
    /\ ret["datetime"] = None

---------------------------------------------------------------------------
(* Properties of _parse_shutter_speed, checked under SpecShutter *)

\* the integer nearest to 10 * n / d, ties to even: n / d to one decimal
NearestTenths(n, d) ==
    CHOOSE k \in 0..(10 * n) :
        \/ 2 * Abs(10 * n - k * d) < d
        \/ 2 * Abs(10 * n - k * d) = d /\ k % 2 = 0

OneDecimal(n, d) ==
    IntToStr(NearestTenths(n, d) \div 10) \o "." \o
    IntToStr(NearestTenths(n, d) % 10) \o "s"

\* the integer nearest to d / n, ties to even: round(d / n)
NearestInt(d, n) ==
    CHOOSE k \in 0..d :
        \/ 2 * Abs(d - k * n) < n
        \/ 2 * Abs(d - k * n) = n /\ k % 2 = 0

\* the integer part of d / n
Floor(d, n) == CHOOSE k \in 0..d : k * n <= d /\ d < (k + 1) * n

ShutterClaim(n, d, whole) ==
    IF n = 0 \/ d = 0 THEN ret = None
    ELSE IF n >= d THEN ret = PyStr(OneDecimal(n, d))
    ELSE ret = PyStr("1/" \o IntToStr(whole))

\* C8 as stated: for numerator < denominator the result is "1/" followed by
\* round(denominator / numerator).
C8_AsStated ==
    call.done =>
        LET n == call.value.v[1]
            d == call.value.v[2]
        IN  ShutterClaim(n, d, IF n = 0 THEN 0 ELSE NearestInt(d, n))

\* C8, amended: for numerator >= denominator the result is the quotient
\* with one decimal followed by "s"; otherwise it is "1/" followed by the
\* integer part of denominator / numerator (truncated, not rounded); a zero
\* numerator or denominator gives None, and nothing is raised.
C8_ShutterSpeed ==
    call.done =>
        LET n == call.value.v[1]
            d == call.value.v[2]
        IN  /\ ret # Raised
            /\ ShutterClaim(n, d, IF n = 0 THEN 0 ELSE Floor(d, n))
            /\ (n = 1 /\ d = 500 => ret = PyStr("1/500"))
            /\ (n = 2 /\ d = 1 => ret = PyStr("2.0s"))
            /\ (n = 1 /\ d = 1 => ret = PyStr("1.0s"))

\* a pair whose quotient denominator / numerator is no integer was formatted
C8_Witness ==
    /\ call.done
    /\ call.value = PyTuple(<<2, 3>>)
    /\ ret = PyStr("1/1")

---------------------------------------------------------------------------
(* Properties of the reports, checked under SpecAggregate *)

\* whether record i carries a timestamp
HasDate(i) ==
    "datetime" \in DOMAIN photos_data[i] /\ photos_data[i]["datetime"] # None

\* the table of 4.2: the label of each hour of the day
LabelOfHour ==
    [h \in 0..23 |->
        IF h \in 5..7 THEN "Early Morning"
        ELSE IF h \in 8..11 THEN "Morning"
        ELSE IF h \in 12..16 THEN "Afternoon"
        ELSE IF h \in 17..19 THEN "Golden Hour"
        ELSE IF h \in 20..22 THEN "Evening"
        ELSE "Night"]

\* the label record i is to get
LabelOf(i) ==
    IF HasDate(i) THEN LabelOfHour[photos_data[i]["datetime"].h] ELSE "Unknown"

\* the weekday of each date the inputs hold
WeekdayOf(date) ==
    CASE date.M = 5 /\ date.D = 28 -> "Sunday"
      [] date.M = 5 /\ date.D = 29 -> "Monday"
      [] date.M = 5 /\ date.D = 30 -> "Tuesday"
      [] date.M = 5 /\ date.D = 31 -> "Wednesday"
      [] date.M = 6 /\ date.D = 1 -> "Thursday"
      [] date.M = 6 /\ date.D = 2 -> "Friday"
      [] date.M = 6 /\ date.D = 3 -> "Saturday"
      [] date.M = 8 /\ date.D = 15 -> "Tuesday"

ReportOps ==
    {"get_camera_usage", "get_lens_usage", "get_iso_distribution",
     "get_aperture_distribution", "get_focal_length_distribution",
     "get_shooting_timeline", "get_time_of_day_distribution",
     "get_day_of_week_distribution", "get_orientation_stats",
     "get_flash_usage_stats", "get_gps_photos"}

\* the record fields each report reads
FieldsRead(op) ==
    CASE op = "get_camera_usage" -> {"camera_model"}
      [] op = "get_lens_usage" -> {"lens"}
      [] op = "get_iso_distribution" -> {"iso"}
      [] op = "get_aperture_distribution" -> {"aperture"}
      [] op = "get_focal_length_distribution" -> {"focal_length"}
      [] op = "get_shooting_timeline" -> {"datetime"}
      [] op = "get_time_of_day_distribution" -> {"datetime"}
      [] op = "get_day_of_week_distribution" -> {"datetime"}
      [] op = "get_orientation_stats" -> {"orientation"}
      [] op = "get_flash_usage_stats" -> {"flash_used"}
      [] op = "get_gps_photos" -> {"latitude", "longitude", "datetime"}

\* no record has the field
AbsentEverywhere(field) ==
    \A i \in 1..Len(photos_data) : field \notin DOMAIN photos_data[i]

IsEmptyResult(r) ==
    \/ r.t = "frame" /\ Len(r.rows) = 0
    \/ r.t = "dict" /\ DOMAIN r.d = {}

\* C4: a report returns an empty result and does not fail when there are
\* no records or when a field it reads is absent from every record; so
\* does get_gps_photos for records that have latitude and longitude and of
\* which none has a datetime.
C4_ReportsDegradeToEmpty ==
    call.op \in ReportOps
    /\ (\E field \in FieldsRead(call.op) : AbsentEverywhere(field)) =>
        ret # Raised /\ IsEmptyResult(ret)

\* the rows the two fixed-order reports are to return
TimeOfDayRows ==
    [k \in 1..6 |->
        [TimeOfDay |-> time_order[k],
         Photos |-> Cardinality({ i \in 1..Len(photos_data) :
                                    LabelOf(i) = time_order[k] })]]

DayOfWeekRows ==
    [k \in 1..7 |->
        [Day |-> DayNames[k],
         Photos |-> Cardinality({ i \in 1..Len(photos_data) :
                                    /\ HasDate(i)
                                    /\ WeekdayOf(photos_data[i]["datetime"])
                                       = DayNames[k] })]]

FixedRows ==
    /\ call.op = "get_time_of_day_distribution" =>
          ret # Raised /\ ret.t = "frame" /\ ret.rows = TimeOfDayRows
    /\ call.op = "get_day_of_week_distribution" =>
          ret # Raised /\ ret.t = "frame" /\ ret.rows = DayOfWeekRows

\* C5 as stated: for every table of at least one record, with or without a
\* datetime, the two reports return the 6 and the 7 rows.
C5_AsStated == Len(photos_data) > 0 => FixedRows

\* C5, amended: for every table in which at least one record has the
\* datetime field (a timestamp or None), time_of_day_distribution returns
\* exactly the 6 rows Early Morning .. Night and day_of_week_distribution
\* the 7 rows Monday .. Sunday, in that order, with 0 where no record
\* matches.
C5_FixedOrderRows == ~AbsentEverywhere("datetime") => FixedRows

\* a table of one record got its 6 rows, one of them counting the record
C5_Witness ==
    /\ call.op = "get_time_of_day_distribution"
    /\ Len(photos_data) = 1
    /\ Len(ret.rows) = 6
    /\ ret.rows[6].Photos = 1
    /\ \A k \in 1..5 : ret.rows[k].Photos = 0

\* a Percentage in tenths of a percent
Tenths(f) == f.num * (10 \div f.den)

RECURSIVE SumTenths(_, _)
SumTenths(rows, i) ==
    IF i > Len(rows) THEN 0
    ELSE Tenths(rows[i].Percentage) + SumTenths(rows, i + 1)

\* each Percentage is count / total * 100 to one decimal, and together they
\* are 100.0 within 0.05 a row
PercentagesSum ==
    /\ ret # Raised
    /\ \A i \in 1..Len(ret.rows) :
          /\ ret.rows[i].Percentage.den \in {1, 2, 5, 10}
          /\ 2 * Abs(1000 * ret.rows[i].Photos
                     - Tenths(ret.rows[i].Percentage) * Len(photos_data))
             <= Len(photos_data)
    /\ 2 * Abs(SumTenths(ret.rows, 1) - 1000) <= Len(ret.rows)

\* C6 as stated, for the tables camera_usage has rows for: the percentages
\* of camera_usage sum to 100.0 within the tolerance, also when some
\* records have no camera_model.
C6_AsStated ==
    call.op = "get_camera_usage" /\ Len(photos_data) > 0
    /\ ~AbsentEverywhere("camera_model")
    => PercentagesSum

\* C6, amended: for every table of at least one record in which every
\* record has a camera_model, each row's percentage is count / total * 100
\* rounded to one decimal and the percentages sum to 100.0 within 0.05 a
\* row.
C6_PercentagesSumTo100 ==
    call.op = "get_camera_usage" /\ Len(photos_data) > 0
    /\ (\A i \in 1..Len(photos_data) : "camera_model" \in DOMAIN photos_data[i])
    => PercentagesSum

\* three cameras with a photo each: three rounded thirds
C6_Witness ==
    /\ call.op = "get_camera_usage"
    /\ Len(photos_data) = 3
    /\ Len(ret.rows) = 3
    /\ SumTenths(ret.rows, 1) = 999

\* C7: time_of_day is total: Early Morning for the hours 5-7, Morning for
\* 8-11, Afternoon for 12-16, Golden Hour for 17-19, Evening for 20-22,
\* Night for 23 and 0-4, and Unknown for an absent hour.
C7_TimeOfDayTotal ==
    df # None /\ "datetime" \in df.columns =>
        \A i \in 1..Len(df.rows) :
            /\ df.rows[i]["hour"] =
                  IF HasDate(i) THEN PyInt(photos_data[i]["datetime"].h) ELSE NaN
            /\ df.rows[i]["time_of_day"] = PyStr(LabelOf(i))

\* a table holds a record of hour 23 labelled Night and one without an
\* hour labelled Unknown
C7_Witness ==
    /\ df # None /\ "datetime" \in df.columns
    /\ \E i, j \in 1..Len(df.rows) :
          /\ df.rows[i]["hour"] = PyInt(23)
          /\ df.rows[i]["time_of_day"] = PyStr("Night")
          /\ df.rows[j]["hour"] = NaN
          /\ df.rows[j]["time_of_day"] = PyStr("Unknown")

===========================================================================
